---- MODULE Spec2Model ----
(***************************************************************************)
(* Job orchestration and webhook dispatch of the invoice OCR service.      *)
(*                                                                         *)
(* One behaviour is one run of one RQ worker entry point on one job.  The  *)
(* state is the job's metadata (in memory and as committed by save_meta),  *)
(* the result store, the log of every webhook call with its POSTs and      *)
(* sleeps, and the position of the worker.  Everything the environment     *)
(* decides (download, classifier, recognizer, MongoDB, Redis, the callback *)
(* server's answers) is a nondeterministic choice of the action that       *)
(* performs the call.                                                      *)
(*                                                                         *)
(* Spec     one run of a worker entry point (job metadata, webhooks)       *)
(* ApiSpec  the submission and status endpoints over the RQ 'ocr' queue    *)
(* PipeSpec one call of preprocess_image, stage by stage, and its caller   *)
(* MergeSpec one call of the recognizer's dual-pass merge                  *)
(* LineSpec  one call of the field extractor's line-item extraction        *)
(* MongoSpec the result store: connect, store_ocr_result, disconnect       *)
(* ImageSpec the image store: store_image calls on one service instance    *)
(***************************************************************************)
EXTENDS Integers, Sequences, FiniteSets, TLC

(***************************************************************************)
(* Program constants                                                       *)
(***************************************************************************)
max_retries == 3

Workers == {"process_invoice_complete_pipeline", "extract_invoice_text",
            "process_invoice_job", "preprocess_invoice_image"}

Secrets == {"", "whsec"}

HttpxBuilds == {"default_separators", "compact_separators"}

\* what one POST can end in: a 2xx, a 4xx, a 5xx, or a transport timeout
Responses == {"200", "400", "503", "timeout"}

(***************************************************************************)
(* Python values.  Every value is a record of the same shape so that any   *)
(* two values can be compared: t is the Python type, s the scalar's text,  *)
(* items the (insertion-ordered) entries of a dict.                        *)
(***************************************************************************)
VStr(s)    == [t |-> "str", s |-> s, items |-> <<>>]
VFloat(s)  == [t |-> "float", s |-> s, items |-> <<>>]
VBool(s)   == [t |-> "bool", s |-> s, items |-> <<>>]
VNpFloat(s) == [t |-> "np.float64", s |-> s, items |-> <<>>]
VNpBool(s) == [t |-> "np.bool_", s |-> s, items |-> <<>>]
VSet       == [t |-> "set", s |-> "set()", items |-> <<>>]
VDict(ps)  == [t |-> "dict", s |-> "", items |-> ps]
KV(k, v)   == [k |-> k, v |-> v]

\* Strings holding a character outside ASCII (the Thai baht sign of
\* invoice_summary); json.dumps escapes them when ensure_ascii is set.
NonAsciiStrings == {"vendor - amount(baht sign)"}

\* Python's ordering of the dict keys used in the payloads (sort_keys=True).
KeysSorted ==
  << "amount", "classification_details", "classification_skipped",
     "document_classification", "error", "event", "final_confidence",
     "invoice_summary", "is_document", "job_id", "message_id",
     "ocr_metadata", "original_job_id", "preprocessing_metadata",
     "processing_time", "result", "stage", "text_density", "timestamp",
     "user_id", "vendor" >>

KeyRank(k) == CHOOSE i \in 1..Len(KeysSorted) : KeysSorted[i] = k

\* sorted(d.items()) : insertion of each entry into an ordered prefix
RECURSIVE SortItems(_)
SortItems(ps) ==
  IF Len(ps) <= 1 THEN ps
  ELSE LET rest == SortItems(Tail(ps))
           p    == Head(ps)
           lo   == SelectSeq(rest, LAMBDA q : KeyRank(q.k) < KeyRank(p.k))
           hi   == SelectSeq(rest, LAMBDA q : KeyRank(q.k) >= KeyRank(p.k))
       IN  lo \o <<p>> \o hi

RECURSIVE convert_to_json_serializable(_)
convert_to_json_serializable(obj) ==
  IF obj.t = "np.float64" THEN VFloat(obj.s)
  ELSE IF obj.t = "np.bool_" THEN VBool(obj.s)
  ELSE IF obj.t = "dict" THEN
    VDict([i \in 1..Len(obj.items) |->
             KV(obj.items[i].k, convert_to_json_serializable(obj.items[i].v))])
  ELSE obj

prepare_webhook_payload(payload) == convert_to_json_serializable(payload)

\* json.dumps raises TypeError on a value of a type it does not know;
\* np.float64 subclasses float and is written as one, np.bool_ is refused
RECURSIVE JsonSerializable(_)
JsonSerializable(obj) ==
  IF obj.t = "dict"
  THEN \A i \in 1..Len(obj.items) : JsonSerializable(obj.items[i].v)
  ELSE obj.t \in {"str", "float", "bool", "np.float64"}

\* json.dumps(obj, sort_keys=.., separators=.., ensure_ascii=..): the text is
\* the sequence of members in the order written, each separator style, and
\* each string either literal or \u-escaped.
RECURSIVE json_dumps(_, _, _, _)
json_dumps(obj, sort_keys, separators, ensure_ascii) ==
  IF obj.t = "dict" THEN
    LET ps == IF sort_keys THEN SortItems(obj.items) ELSE obj.items
    IN  [t |-> "object", s |-> separators, esc |-> FALSE,
         items |-> [i \in 1..Len(ps) |->
                     KV(ps[i].k,
                        json_dumps(ps[i].v, sort_keys, separators, ensure_ascii))]]
  ELSE [t |-> IF obj.t = "np.float64" THEN "float" ELSE obj.t, s |-> obj.s,
        esc |-> (ensure_ascii /\ obj.t = "str" /\ obj.s \in NonAsciiStrings),
        items |-> <<>>]

NoBytes == [t |-> "none", s |-> "", esc |-> FALSE, items |-> <<>>]

\* hmac.new(key, msg, sha256).hexdigest(): a collision-free digest of (key, msg)
hmac_sha256(key, msg) == [key |-> key, msg |-> msg]

NoSignature == [prefix |-> "", mac |-> hmac_sha256("", NoBytes)]

SignatureOf(key, bytes) == [prefix |-> "sha256=", mac |-> hmac_sha256(key, bytes)]

\* generate_webhook_signature: ok = FALSE stands for the ValueError
generate_webhook_signature(payload, WEBHOOK_SECRET) ==
  IF WEBHOOK_SECRET = ""
  THEN [ok |-> FALSE, value |-> NoSignature]
  ELSE [ok |-> TRUE,
        value |-> SignatureOf(WEBHOOK_SECRET,
                              json_dumps(payload, TRUE, "compact", TRUE))]

\* httpx's encoding of the json= argument: members in dict order; older
\* builds use json.dumps defaults, newer ones compact separators and
\* ensure_ascii=False.
httpx_encode_json(obj, build) ==
  IF build = "default_separators"
  THEN json_dumps(obj, FALSE, "default", TRUE)
  ELSE json_dumps(obj, FALSE, "compact", FALSE)

\* requests' encoding of the json= argument: json.dumps defaults
requests_encode_json(obj) == json_dumps(obj, FALSE, "default", TRUE)


(***************************************************************************)
(* State                                                                   *)
(***************************************************************************)
VARIABLES
  worker,                 \* the RQ entry point this run executes
  WEBHOOK_SECRET,         \* os.getenv("WEBHOOK_SECRET", "")
  httpx_build,            \* which json encoder the installed httpx has
  preprocessing_metadata, \* argument of extract_invoice_text
  pc,                     \* position of the worker
  meta,                   \* job.meta in the worker's memory
  saved,                  \* job.meta as last committed by save_meta
  commits,                \* every committed job.meta, in order
  exc,                    \* the exception being handled
  loc,                    \* locals of the worker function
  store,                  \* job_ids holding a record in ocr_results
  calls,                  \* every webhook call: event, payload, outcome
  trace,                  \* POSTs and sleeps of the latest webhook call
  sw,                     \* locals of the running send_webhook call
  now,                    \* seconds elapsed on the clock
  rq_jobs,                \* the RQ jobs created on the 'ocr' queue, by number
  rq_queue,               \* the 'ocr' queue: numbers of the jobs still queued
  created,                \* the answers of create_invoice_job, in order
  status_response,        \* the latest answer of get_job_status
  caller,                 \* the worker calling preprocess_image
  operations,             \* the operations argument of preprocess_image
  cv2_fails,              \* the OpenCV attempts that raise on this image
  ppc,                    \* position inside preprocess_image
  metadata,               \* preprocess_image's metadata dict
  failed_operations,      \* preprocess_image's failed_operations list
  epc,                    \* position of the recognizer call under study
  primary_regions,        \* regions of the primary OCR pass
  secondary_regions,      \* regions of the secondary OCR pass
  merged_regions,         \* what _merge_dual_pass_results returned
  text_regions,           \* the regions given to _extract_line_items
  line_items,             \* what _extract_line_items returned
  database,               \* MongoDBClient._database: "connected" or "None"
  job_id_index,           \* the server has the unique index on job_id
  ocr_results,            \* the documents of the ocr_results collection
  store_calls,            \* every store_ocr_result call and its outcome
  storage_provider,       \* ImageStorageService.storage_provider
  spaces_bucket,          \* the objects written to the cloud bucket
  local_files,            \* the files written under storage_path
  store_image_calls       \* every store_image call and what it returned

api  == <<rq_jobs, rq_queue, created, status_response>>
pipe == <<caller, operations, cv2_fails, ppc, metadata, failed_operations>>
run  == <<pc, meta, saved, commits, exc, loc, store, calls, trace, sw, now>>
engine == <<epc, primary_regions, secondary_regions, merged_regions,
            text_regions, line_items>>
mongo  == <<database, job_id_index, ocr_results, store_calls>>
images == <<storage_provider, spaces_bucket, local_files, store_image_calls>>
lib  == <<engine, mongo, images>>
env  == <<worker, WEBHOOK_SECRET, httpx_build, preprocessing_metadata, api,
          pipe, lib>>
vars == <<worker, WEBHOOK_SECRET, httpx_build, preprocessing_metadata, pc,
          meta, saved, commits, exc, loc, store, calls, trace, sw, now,
          api, pipe, lib>>

job_id == IF worker = "extract_invoice_text" THEN "job-1_ocr" ELSE "job-1"

NoExc == [kind |-> "none", msg |-> "", stage |-> ""]

EmptyMeta == [progress |-> 0, stage |-> "", error |-> ""]

\* doc_metadata as is_document_image returns it (numpy scalars), as its
\* internal except returns it, and as the consolidated worker's except
\* builds it
\* (numpy: the weighted sum is an np.float64 and its comparison an np.bool_;
\* when the numpy-valued analyses fell back to 0.0 the values are Python's)
ClassifierMetadata(accepted, numpy) ==
  VDict(<< KV("text_density", VFloat(IF accepted THEN "0.40" ELSE "0.05")),
           KV("final_confidence",
              IF numpy THEN VNpFloat(IF accepted THEN "0.30" ELSE "0.10")
                       ELSE VFloat(IF accepted THEN "0.30" ELSE "0.10")),
           KV("is_document",
              IF numpy THEN VNpBool(IF accepted THEN "True" ELSE "False")
                       ELSE VBool(IF accepted THEN "True" ELSE "False")) >>)

SkippedMetadata ==
  VDict(<< KV("classification_skipped", VBool("True")),
           KV("error", VStr("classifier raised")) >>)

\* {'error': str(e)} as is_document_image's own except returns it
ErrorMetadata == VDict(<< KV("error", VStr("classifier body raised")) >>)

\* the images and faults the classifier meets: a document, a photo, an
\* image on which the four cv2-based analyses raise inside their own try
\* (each then scores 0.0), an image on which is_document_image's own body
\* raises
ClassifierCases == {"document", "photo", "analyses_raised", "body_raised"}

\* the five analysis scores, in hundredths
AnalysisScores(case) ==
  CASE case = "document" ->
         [text |-> 30, edge |-> 30, rect |-> 30, brightness |-> 30, aspect |-> 30]
    [] case = "photo" ->
         [text |-> 10, edge |-> 10, rect |-> 10, brightness |-> 10, aspect |-> 10]
    [] OTHER ->
         [text |-> 0, edge |-> 0, rect |-> 0, brightness |-> 0, aspect |-> 100]

\* the weighted sum, in ten-thousandths
document_confidence(sc) ==
  sc.text * 35 + sc.edge * 25 + sc.rect * 20 + sc.brightness * 10
    + sc.aspect * 10

\* (is_document, metadata) as is_document_image returns them
is_document_image(case) ==
  IF case = "body_raised"
  THEN [is_document |-> TRUE, confidence |-> 5000, metadata |-> ErrorMetadata]
  ELSE LET c == document_confidence(AnalysisScores(case))
       IN [is_document |-> c >= 2500, confidence |-> c,
           metadata |-> ClassifierMetadata(c >= 2500, case # "analyses_raised")]

NoLocals == [doc_metadata |-> VDict(<<>>), invoice_fields |-> "none",
             webhook_sent |-> "unset", classifier |-> "none",
             ocr_init |-> "none"]

IdleSend == [json |-> VDict(<<>>), has_sig |-> FALSE, sig |-> NoSignature,
             attempt |-> 0, ret |-> ""]

\* preprocessing_metadata: omitted (None becomes {}), the ocr_metadata dict
\* the preprocessing worker enqueues, or a dict holding a value json cannot
\* serialize
MetadataArgs ==
  { VDict(<<>>),
    VDict(<< KV("original_job_id", VStr("job-1")),
             KV("preprocessing_metadata", ClassifierMetadata(TRUE, TRUE)) >>),
    VDict(<< KV("original_job_id", VStr("job-1")),
             KV("preprocessing_metadata", VSet) >>) }

\* no submission has been made
NoStatusResponse == [job_id |-> "", code |-> 0, status |-> "", progress |-> 0]

ApiIdle ==
  /\ rq_jobs = <<>>
  /\ rq_queue = <<>>
  /\ created = <<>>
  /\ status_response = NoStatusResponse

\* preprocess_image is not being called
NoMetadata == [operations_applied |-> <<>>, keys |-> {}, processing_quality |-> ""]

PipeIdle ==
  /\ caller = ""
  /\ operations = <<>>
  /\ cv2_fails = {}
  /\ ppc = "idle"
  /\ metadata = NoMetadata
  /\ failed_operations = <<>>

\* no recognizer call is under study
EngineIdle ==
  /\ epc = "idle"
  /\ primary_regions = <<>>
  /\ secondary_regions = <<>>
  /\ merged_regions = <<>>
  /\ text_regions = <<>>
  /\ line_items = <<>>

\* the result store is not connected and holds nothing
MongoIdle ==
  /\ database = "None"
  /\ job_id_index = FALSE
  /\ ocr_results = <<>>
  /\ store_calls = <<>>

\* no image has been stored
ImagesIdle ==
  /\ storage_provider = "local"
  /\ spaces_bucket = {}
  /\ local_files = {}
  /\ store_image_calls = <<>>

LibIdle == EngineIdle /\ MongoIdle /\ ImagesIdle

Init ==
  /\ worker \in Workers
  /\ WEBHOOK_SECRET \in Secrets
  /\ httpx_build \in HttpxBuilds
  /\ preprocessing_metadata \in
       (IF worker = "extract_invoice_text" THEN MetadataArgs ELSE {VDict(<<>>)})
  /\ pc = "start"
  /\ meta = EmptyMeta
  /\ saved = EmptyMeta
  /\ commits = <<>>
  /\ exc = NoExc
  /\ loc = NoLocals
  /\ store = {}
  /\ calls = <<>>
  /\ trace = <<>>
  /\ sw = IdleSend
  /\ now = 0
  /\ ApiIdle
  /\ PipeIdle
  /\ LibIdle

(***************************************************************************)
(* job.meta[...] = ...; job.save_meta()                                    *)
(***************************************************************************)
Raise(kind, msg, stage) ==
  /\ pc' = "except"
  /\ exc' = [kind |-> kind, msg |-> msg, stage |-> stage]

\* a save that counts the remaining work down instead of the progress up
SaveOk_countdown(progress, stage) ==
  /\ meta' = [meta EXCEPT !.progress = 100 - progress, !.stage = stage]
  /\ saved' = meta'
  /\ commits' = Append(commits, meta')

\* save_meta writes the whole in-memory dict to Redis
SaveOk(progress, stage) ==
  /\ meta' = [meta EXCEPT !.progress = progress, !.stage = stage]
  /\ saved' = meta'
  /\ commits' = Append(commits, meta')

\* save_meta raises (Redis unreachable): memory changed, nothing committed
SaveRaises(progress, stage) ==
  /\ meta' = [meta EXCEPT !.progress = progress, !.stage = stage]
  /\ UNCHANGED <<saved, commits>>
  /\ Raise("RedisError", "Redis connection error", stage)

(***************************************************************************)
(* Webhook payloads                                                        *)
(***************************************************************************)
Pair(d, k) == LET i == CHOOSE j \in 1..Len(d.items) : d.items[j].k = k
              IN  d.items[i].v
HasKey(d, k) == \E j \in 1..Len(d.items) : d.items[j].k = k

Timestamp == VStr(ToString(now))
Elapsed   == VFloat(ToString(now))

\* the attributes OCREngine.__init__ sets on the instance
OCREngine_attributes ==
  {"language", "use_gpu", "dual_pass", "_ocr_instance",
   "_ocr_instance_secondary", "_is_initialized", "_supported_languages"}

\* extract_invoice_fields reads self.config.debug_mode before anything else:
\* an AttributeError when the instance has no such attribute, the fields
\* found in the regions otherwise
extract_invoice_fields ==
  IF "config" \in OCREngine_attributes THEN "extracted" ELSE "AttributeError"

\* the vendor line and the total of the recognised invoice (the vendor in
\* Latin transliteration of its Thai text)
RecognisedVendor == "Ran Ahan Dee Jai"
RecognisedAmount == "245.5"

\* consolidated_invoice_worker.py, webhook_payload
ConsolidatedCompletedPayload ==
  VDict(<< KV("event", VStr("job.completed")),
           KV("job_id", VStr(job_id)),
           KV("user_id", VStr("U1")),
           KV("message_id", VStr("M1")),
           KV("timestamp", Timestamp),
           KV("processing_time", Elapsed),
           KV("result", VDict(<<
              KV("vendor", VStr(IF loc.invoice_fields = "extracted"
                                THEN RecognisedVendor ELSE "Unknown")),
              KV("amount", VFloat(IF loc.invoice_fields = "extracted"
                                  THEN RecognisedAmount ELSE "0.0")),
              KV("invoice_summary", VStr("vendor - amount(baht sign)")),
              KV("ocr_metadata", VDict(<<
                 KV("document_classification", loc.doc_metadata) >>)) >>)) >>)

\* error_payload of the three workers that send job.failed from the handler;
\* stage is read from job.meta after the handler has overwritten it
ErrorPayload(m) ==
  VDict(<< KV("event", VStr("job.failed")),
           KV("job_id", VStr(IF worker = "extract_invoice_text"
                                 /\ HasKey(preprocessing_metadata, "original_job_id")
                              THEN Pair(preprocessing_metadata, "original_job_id").s
                              ELSE job_id)),
           KV("user_id", VStr("U1")),
           KV("message_id", VStr("M1")),
           KV("timestamp", Timestamp),
           KV("processing_time", Elapsed),
           KV("error", VStr(m.error)),
           KV("stage", VStr(m.stage)) >>
        \o (IF worker = "extract_invoice_text"
            THEN << KV("preprocessing_metadata", preprocessing_metadata) >>
            ELSE << >>))

(***************************************************************************)
(* send_webhook                                                            *)
(***************************************************************************)
\* a linear backoff in place of the exponential one
Backoff_linear(attempt) == attempt + 1

\* asyncio.sleep(2 ** attempt)
Backoff(attempt) == 2 ^ attempt

TraceItem(k, body, has_sig, sig, resp, secs) ==
  [k |-> k, body |-> body, has_sig |-> has_sig, sig |-> sig, resp |-> resp,
   secs |-> secs, at |-> now]

\* the call's preamble: prepare_webhook_payload (absent in ocr_worker.py)
\* and the signature, computed once
SendJson(payload) ==
  IF worker = "process_invoice_job" THEN payload
  ELSE prepare_webhook_payload(payload)

\* json.dumps inside generate_webhook_signature raises TypeError, which the
\* "except ValueError" does not catch
SendPreambleRaises(payload) ==
  /\ WEBHOOK_SECRET # ""
  /\ ~JsonSerializable(SendJson(payload))

NewCall(payload, ret) ==
  [fn |-> "send_webhook", event |-> Pair(payload, "event").s,
   payload |-> SendJson(payload), posts |-> 0, ret |-> ret]

BeginSend(payload, ret_pc) ==
  LET g == generate_webhook_signature(SendJson(payload), WEBHOOK_SECRET)
  IN  /\ sw' = [json |-> SendJson(payload), has_sig |-> g.ok, sig |-> g.value,
                attempt |-> 0, ret |-> ret_pc]
      /\ calls' = Append(calls, NewCall(payload, "pending"))
      /\ trace' = <<>>
      /\ pc' = "send_webhook"

\* the payload with its timestamp taken again
Restamped(payload) ==
  VDict([i \in 1..Len(payload.items) |->
           IF payload.items[i].k = "timestamp"
           THEN KV("timestamp", Timestamp)
           ELSE payload.items[i]])

\* a request rebuilt and re-signed at every iteration
AttemptRequest_restamped ==
  [body |-> httpx_encode_json(Restamped(sw.json), httpx_build),
   has_sig |-> sw.has_sig,
   sig |-> IF sw.has_sig
           THEN generate_webhook_signature(Restamped(sw.json), WEBHOOK_SECRET).value
           ELSE NoSignature]

\* the request of one loop iteration: headers built from the one signature,
\* body encoded by httpx from the one json_safe_payload
AttemptRequest ==
  [body |-> httpx_encode_json(sw.json, httpx_build),
   has_sig |-> sw.has_sig,
   sig |-> IF sw.has_sig THEN sw.sig ELSE NoSignature]

\* one iteration of "for attempt in range(max_retries + 1)"
SendAttempt ==
  /\ pc = "send_webhook"
  /\ LET posted == JsonSerializable(sw.json)
         n      == Len(calls)
     IN \E resp \in (IF posted THEN Responses ELSE {"not_sent"}) :
          LET item == TraceItem(IF posted THEN "post" ELSE "encode_error",
                                AttemptRequest.body, AttemptRequest.has_sig,
                                AttemptRequest.sig, resp, 0)
              nap  == TraceItem("sleep", NoBytes, FALSE, NoSignature, "",
                                Backoff(sw.attempt))
              cnt  == calls[n].posts + (IF posted THEN 1 ELSE 0)
          IN \/ /\ resp = "200"
                /\ trace' = Append(trace, item)
                /\ calls' = [calls EXCEPT ![n].posts = cnt, ![n].ret = "true"]
                /\ loc' = [loc EXCEPT !.webhook_sent = "true"]
                /\ pc' = sw.ret
                /\ UNCHANGED <<sw, now>>
             \/ /\ resp # "200"
                /\ sw.attempt < max_retries
                /\ trace' = Append(Append(trace, item), nap)
                /\ calls' = [calls EXCEPT ![n].posts = cnt]
                /\ sw' = [sw EXCEPT !.attempt = @ + 1]
                /\ now' = now + Backoff(sw.attempt)
                /\ UNCHANGED <<pc, loc>>
             \/ /\ resp # "200"
                /\ sw.attempt >= max_retries
                /\ trace' = Append(trace, item)
                /\ calls' = [calls EXCEPT ![n].posts = cnt, ![n].ret = "false"]
                /\ loc' = [loc EXCEPT !.webhook_sent = "false"]
                /\ pc' = sw.ret
                /\ UNCHANGED <<sw, now>>
  /\ UNCHANGED <<env, meta, saved, commits, exc, store>>

(***************************************************************************)
(* process_invoice_complete_pipeline                                       *)
(***************************************************************************)
IsConsolidated == worker = "process_invoice_complete_pipeline"

CP_Initializing ==
  /\ pc = "start" /\ IsConsolidated
  /\ \/ SaveOk(0, "initializing") /\ pc' = "cp_preprocessing" /\ UNCHANGED exc
     \/ SaveRaises(0, "initializing")
  /\ UNCHANGED <<env, loc, store, calls, trace, sw, now>>

\* stage 1: download, document classification, preprocessing pipeline
CP_Preprocessing ==
  /\ pc = "cp_preprocessing"
  /\ \/ SaveRaises(10, "preprocessing") /\ UNCHANGED loc
     \/ /\ SaveOk(10, "preprocessing")
        /\ \/ \* load_image_from_url raises
              /\ Raise("ValueError", "Failed to download image: HTTP 404",
                       "preprocessing")
              /\ UNCHANGED loc
           \/ \* is_document_image returns: reject or accept
              \E case \in ClassifierCases :
                LET r == is_document_image(case)
                IN /\ loc' = [loc EXCEPT !.doc_metadata = r.metadata,
                                         !.classifier = case]
                   /\ IF r.is_document
                      THEN pc' = "cp_ocr_extraction" /\ UNCHANGED exc
                      ELSE Raise("ValueError",
                                 "Image does not contain a document (confidence: 0.100)",
                                 "preprocessing")
           \/ \* the call to the classifier raises: assume a document
              /\ loc' = [loc EXCEPT !.doc_metadata = SkippedMetadata,
                                    !.classifier = "call_raised"]
              /\ pc' = "cp_ocr_extraction" /\ UNCHANGED exc
  /\ UNCHANGED <<env, store, calls, trace, sw, now>>

\* stage 2: recognizer initialisation and text extraction
CP_OcrExtraction ==
  /\ pc = "cp_ocr_extraction"
  /\ \/ SaveRaises(40, "ocr_extraction") /\ UNCHANGED loc
     \/ /\ SaveOk(40, "ocr_extraction")
        /\ \/ /\ Raise("RuntimeError",
                       "OCR engine initialization failed: no model",
                       "ocr_extraction")
              /\ loc' = [loc EXCEPT !.ocr_init = "failed"]
           \/ /\ pc' = "cp_field_extraction" /\ UNCHANGED exc
              /\ loc' = [loc EXCEPT !.ocr_init = "ok"]
  /\ UNCHANGED <<env, store, calls, trace, sw, now>>

\* stage 3: field extraction, with the empty structure as fallback
CP_FieldExtraction ==
  /\ pc = "cp_field_extraction"
  /\ \/ SaveRaises(60, "field_extraction") /\ UNCHANGED loc
     \/ /\ SaveOk(60, "field_extraction")
        /\ loc' = [loc EXCEPT !.invoice_fields =
                       IF extract_invoice_fields = "AttributeError"
                       THEN "fallback" ELSE extract_invoice_fields]
        /\ pc' = "cp_preparing_results" /\ UNCHANGED exc
  /\ UNCHANGED <<env, store, calls, trace, sw, now>>

CP_PreparingResults ==
  /\ pc = "cp_preparing_results"
  /\ \/ SaveRaises(80, "preparing_results")
     \/ SaveOk(80, "preparing_results") /\ pc' = "cp_storing_results"
        /\ UNCHANGED exc
  /\ UNCHANGED <<env, loc, store, calls, trace, sw, now>>

\* stage 5: store_results_in_mongodb; a failure is logged and swallowed
CP_StoringResults ==
  /\ pc = "cp_storing_results"
  /\ \/ SaveRaises(90, "storing_results") /\ UNCHANGED store
     \/ /\ SaveOk(90, "storing_results")
        /\ \/ store' = store \cup {job_id}
           \/ UNCHANGED store
        /\ pc' = "cp_sending_webhook" /\ UNCHANGED exc
  /\ UNCHANGED <<env, loc, calls, trace, sw, now>>

\* stage 6: build the job.completed payload and enter send_webhook; an
\* exception out of send_webhook is caught and sets webhook_sent = False
CP_SendingWebhook ==
  /\ pc = "cp_sending_webhook"
  /\ \/ SaveRaises(95, "sending_webhook") /\ UNCHANGED <<loc, calls, trace, sw>>
     \/ /\ SaveOk(95, "sending_webhook")
        /\ UNCHANGED exc
        /\ \/ BeginSend(ConsolidatedCompletedPayload, "cp_completed")
              /\ UNCHANGED loc
           \/ \* "import httpx" inside send_webhook fails
              /\ calls' = Append(calls,
                                 NewCall(ConsolidatedCompletedPayload, "raised"))
              /\ trace' = <<>>
              /\ loc' = [loc EXCEPT !.webhook_sent = "false"]
              /\ pc' = "cp_completed"
              /\ UNCHANGED sw
  /\ UNCHANGED <<env, store, now>>

CP_Completed ==
  /\ pc = "cp_completed"
  /\ \/ SaveRaises(100, "completed")
     \/ SaveOk(100, "completed") /\ pc' = "returned" /\ UNCHANGED exc
  /\ UNCHANGED <<env, loc, store, calls, trace, sw, now>>

(***************************************************************************)
(* extract_invoice_text                                                    *)
(***************************************************************************)
IsExtraction == worker = "extract_invoice_text"

original_job_id ==
  IF HasKey(preprocessing_metadata, "original_job_id")
  THEN Pair(preprocessing_metadata, "original_job_id").s
  ELSE job_id

\* ocr_extraction_worker.py, webhook_payload
ExtractionCompletedPayload ==
  VDict(<< KV("event", VStr("job.completed")),
           KV("job_id", VStr(original_job_id)),
           KV("user_id", VStr("U1")),
           KV("message_id", VStr("M1")),
           KV("timestamp", Timestamp),
           KV("processing_time", Elapsed),
           KV("result", VDict(<<
              KV("vendor", VStr(IF loc.invoice_fields = "extracted"
                                THEN RecognisedVendor ELSE "OCR Failed")),
              KV("amount", VFloat(IF loc.invoice_fields = "extracted"
                                  THEN RecognisedAmount ELSE "0.0")),
              KV("invoice_summary", VStr("vendor - amount(baht sign)")),
              KV("preprocessing_metadata", preprocessing_metadata) >>)) >>)

EX_Initializing ==
  /\ pc = "start" /\ IsExtraction
  /\ \/ SaveOk(0, "initializing") /\ pc' = "ex_loading_image" /\ UNCHANGED exc
     \/ SaveRaises(0, "initializing")
  /\ UNCHANGED <<env, loc, store, calls, trace, sw, now>>

EX_LoadingImage ==
  /\ pc = "ex_loading_image"
  /\ \/ SaveRaises(10, "loading_image")
     \/ /\ SaveOk(10, "loading_image")
        /\ \/ Raise("ValueError", "Failed to load image from URL", "loading_image")
           \/ pc' = "ex_ocr_extraction" /\ UNCHANGED exc
  /\ UNCHANGED <<env, loc, store, calls, trace, sw, now>>

\* the inner try: recognizer initialisation and text extraction; whatever
\* they raise is replaced by the "OCR Failed" result
EX_OcrExtraction ==
  /\ pc = "ex_ocr_extraction"
  /\ \/ SaveRaises(40, "ocr_extraction") /\ UNCHANGED loc
     \/ /\ SaveOk(40, "ocr_extraction")
        /\ UNCHANGED exc
        /\ \/ \* OCREngine(...) or initialize() raises
              /\ loc' = [loc EXCEPT !.invoice_fields = "ocr_failed",
                                    !.ocr_init = "failed"]
              /\ pc' = "ex_parsing"
           \/ \* extract_text raises
              /\ loc' = [loc EXCEPT !.invoice_fields = "ocr_failed",
                                    !.ocr_init = "ok"]
              /\ pc' = "ex_parsing"
           \/ /\ pc' = "ex_field_extraction"
              /\ loc' = [loc EXCEPT !.ocr_init = "ok"]
  /\ UNCHANGED <<env, store, calls, trace, sw, now>>

\* still inside the inner try: the save_meta of this stage and the field
\* extraction both fall back to the "OCR Failed" result when they raise
EX_FieldExtraction ==
  /\ pc = "ex_field_extraction"
  /\ \/ /\ meta' = [meta EXCEPT !.progress = 60, !.stage = "field_extraction"]
        /\ UNCHANGED <<saved, commits>>
        /\ loc' = [loc EXCEPT !.invoice_fields = "ocr_failed"]
     \/ /\ SaveOk(60, "field_extraction")
        /\ loc' = [loc EXCEPT !.invoice_fields =
                       IF extract_invoice_fields = "AttributeError"
                       THEN "ocr_failed" ELSE extract_invoice_fields]
  /\ pc' = "ex_parsing"
  /\ UNCHANGED <<env, exc, store, calls, trace, sw, now>>

EX_Parsing ==
  /\ pc = "ex_parsing"
  /\ \/ SaveRaises(80, "parsing")
     \/ SaveOk(80, "parsing") /\ pc' = "ex_completed" /\ UNCHANGED exc
  /\ UNCHANGED <<env, loc, store, calls, trace, sw, now>>

\* "Complete job" is committed first, then the job.completed webhook is
\* sent; the call is not wrapped in a try of its own
EX_Completed ==
  /\ pc = "ex_completed"
  /\ \/ SaveRaises(100, "completed") /\ UNCHANGED <<calls, trace, sw>>
     \/ /\ SaveOk(100, "completed")
        /\ IF SendPreambleRaises(ExtractionCompletedPayload)
           THEN /\ calls' = Append(calls,
                                   NewCall(ExtractionCompletedPayload, "raised"))
                /\ trace' = <<>>
                /\ Raise("TypeError", "Object of type set is not JSON serializable",
                         "completed")
                /\ UNCHANGED sw
           ELSE BeginSend(ExtractionCompletedPayload, "sent") /\ UNCHANGED exc
  /\ UNCHANGED <<env, loc, store, now>>

\* after the job.completed send: log the outcome and return the result
ReturnResult ==
  /\ pc = "sent"
  /\ pc' = "returned"
  /\ UNCHANGED <<env, meta, saved, commits, exc, loc, store, calls, trace, sw, now>>

(***************************************************************************)
(* process_invoice_job                                                     *)
(***************************************************************************)
IsOcrWorker == worker = "process_invoice_job"

\* ocr_worker.py, webhook_payload (the mock result)
MockCompletedPayload ==
  VDict(<< KV("event", VStr("job.completed")),
           KV("job_id", VStr(job_id)),
           KV("user_id", VStr("U1")),
           KV("message_id", VStr("M1")),
           KV("timestamp", Timestamp),
           KV("processing_time", Elapsed),
           KV("result", VDict(<<
              KV("vendor", VStr("mock vendor")),
              KV("amount", VFloat("245.5")),
              KV("invoice_summary", VStr("vendor - amount(baht sign)")) >>)) >>)

W_Initializing ==
  /\ pc = "start" /\ IsOcrWorker
  /\ \/ SaveOk(0, "initializing") /\ pc' = "w_enqueue_preprocessing"
        /\ UNCHANGED exc
     \/ SaveRaises(0, "initializing")
  /\ UNCHANGED <<env, loc, store, calls, trace, sw, now>>

\* enqueue of the preprocessing job on the 'preprocessing' queue
W_EnqueuePreprocessing ==
  /\ pc = "w_enqueue_preprocessing"
  /\ \/ SaveRaises(10, "enqueue_preprocessing")
     \/ /\ SaveOk(10, "enqueue_preprocessing")
        /\ \/ Raise("RedisError", "Redis connection error", "enqueue_preprocessing")
           \/ pc' = "w_waiting_preprocessing" /\ UNCHANGED exc
  /\ UNCHANGED <<env, loc, store, calls, trace, sw, now>>

\* polling ends finished, failed or timed out; all three continue
W_WaitingPreprocessing ==
  /\ pc = "w_waiting_preprocessing"
  /\ \/ SaveRaises(30, "waiting_preprocessing")
     \/ SaveOk(30, "waiting_preprocessing") /\ pc' = "w_ocr_extraction"
        /\ UNCHANGED exc
  /\ UNCHANGED <<env, loc, store, calls, trace, sw, now>>

W_OcrExtraction ==
  /\ pc = "w_ocr_extraction"
  /\ \/ SaveRaises(70, "ocr_extraction")
     \/ SaveOk(70, "ocr_extraction") /\ pc' = "w_parsing" /\ UNCHANGED exc
  /\ UNCHANGED <<env, loc, store, calls, trace, sw, now>>

W_Parsing ==
  /\ pc = "w_parsing"
  /\ \/ SaveRaises(90, "parsing")
     \/ SaveOk(90, "parsing") /\ pc' = "w_completed" /\ UNCHANGED exc
  /\ UNCHANGED <<env, loc, store, calls, trace, sw, now>>

W_Completed ==
  /\ pc = "w_completed"
  /\ \/ SaveRaises(100, "completed") /\ UNCHANGED <<calls, trace, sw>>
     \/ /\ SaveOk(100, "completed")
        /\ BeginSend(MockCompletedPayload, "sent")
        /\ UNCHANGED exc
  /\ UNCHANGED <<env, loc, store, now>>

(***************************************************************************)
(* preprocess_invoice_image                                                *)
(***************************************************************************)
IsPreprocessing == worker = "preprocess_invoice_image"

\* preprocessing_worker.py, webhook_payload of the non-document branch
NonDocumentPayload(doc_metadata) ==
  VDict(<< KV("event", VStr("job.failed")),
           KV("job_id", VStr(job_id)),
           KV("user_id", VStr("U1")),
           KV("message_id", VStr("M1")),
           KV("timestamp", Timestamp),
           KV("processing_time", Elapsed),
           KV("error", VStr("Non-document image detected")),
           KV("stage", VStr("document_classification")),
           KV("classification_details", doc_metadata) >>)

\* requests.post(webhook_url, json=webhook_payload, timeout=30): one POST,
\* no signature header, no raise_for_status; whatever it raises is logged
RequestsPost(payload) ==
  IF JsonSerializable(payload)
  THEN \E resp \in Responses :
         /\ calls' = Append(calls,
                [fn |-> "requests.post", event |-> Pair(payload, "event").s,
                 payload |-> payload, posts |-> 1,
                 ret |-> IF resp = "timeout" THEN "raised" ELSE "true"])
         /\ trace' = << TraceItem("post", requests_encode_json(payload), FALSE,
                                  NoSignature, resp, 0) >>
  ELSE /\ calls' = Append(calls,
                [fn |-> "requests.post", event |-> Pair(payload, "event").s,
                 payload |-> payload, posts |-> 0, ret |-> "raised"])
       /\ trace' = <<>>

P_Initializing ==
  /\ pc = "start" /\ IsPreprocessing
  /\ \/ SaveOk(0, "initializing") /\ pc' = "p_downloading" /\ UNCHANGED exc
     \/ SaveRaises(0, "initializing")
  /\ UNCHANGED <<env, loc, store, calls, trace, sw, now>>

P_Downloading ==
  /\ pc = "p_downloading"
  /\ \/ SaveRaises(10, "downloading")
     \/ /\ SaveOk(10, "downloading")
        /\ \/ Raise("ValueError", "Failed to load image from URL", "downloading")
           \/ pc' = "p_preprocessing" /\ UNCHANGED exc
  /\ UNCHANGED <<env, loc, store, calls, trace, sw, now>>

\* document classification, the non-document webhook, preprocess_image
P_Preprocessing ==
  /\ pc = "p_preprocessing"
  /\ \/ SaveRaises(30, "preprocessing") /\ UNCHANGED <<loc, calls, trace>>
     \/ /\ SaveOk(30, "preprocessing")
        /\ \/ \* classifier rejects: webhook, then ValueError
              \E case \in {c \in ClassifierCases : ~is_document_image(c).is_document} :
                /\ loc' = [loc EXCEPT
                             !.doc_metadata = is_document_image(case).metadata,
                             !.classifier = case]
                /\ RequestsPost(NonDocumentPayload(is_document_image(case).metadata))
                /\ Raise("ValueError",
                         "Image does not contain a document (confidence: 0.100)",
                         "preprocessing")
           \/ \* classifier accepts, preprocess_image raises
              /\ loc' = [loc EXCEPT
                           !.doc_metadata = is_document_image("document").metadata,
                           !.classifier = "document"]
              /\ Raise("Exception", "preprocess_image failed", "preprocessing")
              /\ UNCHANGED <<calls, trace>>
           \/ \* classifier accepts, pipeline runs
              \E case \in {c \in ClassifierCases : is_document_image(c).is_document} :
                /\ loc' = [loc EXCEPT
                             !.doc_metadata = is_document_image(case).metadata,
                             !.classifier = case]
                /\ pc' = "p_validation"
                /\ UNCHANGED <<exc, calls, trace>>
  /\ UNCHANGED <<env, store, sw, now>>

P_Validation ==
  /\ pc = "p_validation"
  /\ \/ SaveRaises(70, "validation")
     \/ SaveOk(70, "validation") /\ pc' = "p_saving" /\ UNCHANGED exc
  /\ UNCHANGED <<env, loc, store, calls, trace, sw, now>>

\* save_image_to_bytes and store_image; both re-raise
P_Saving ==
  /\ pc = "p_saving"
  /\ \/ SaveRaises(90, "saving")
     \/ /\ SaveOk(90, "saving")
        /\ \/ Raise("ValueError", "Storage service returned empty URL", "saving")
           \/ pc' = "p_enqueue_ocr" /\ UNCHANGED exc
  /\ UNCHANGED <<env, loc, store, calls, trace, sw, now>>

P_EnqueueOcr ==
  /\ pc = "p_enqueue_ocr"
  /\ \/ SaveRaises(95, "enqueue_ocr")
     \/ /\ SaveOk(95, "enqueue_ocr")
        /\ \/ Raise("RedisError", "Redis connection error", "enqueue_ocr")
           \/ pc' = "p_completed" /\ UNCHANGED exc
  /\ UNCHANGED <<env, loc, store, calls, trace, sw, now>>

P_Completed ==
  /\ pc = "p_completed"
  /\ \/ SaveRaises(100, "completed")
     \/ SaveOk(100, "completed") /\ pc' = "returned" /\ UNCHANGED exc
  /\ UNCHANGED <<env, loc, store, calls, trace, sw, now>>

(***************************************************************************)
(* except Exception as e: (the handler of each worker)                     *)
(***************************************************************************)
SendsErrorWebhook == worker # "preprocess_invoice_image"

Handler ==
  /\ pc = "except"
  /\ LET m == [meta EXCEPT !.stage = "failed", !.error = exc.msg]
     IN /\ meta' = m
        /\ \/ \* save_meta raises inside the handler: the new exception leaves
              /\ pc' = "raised"
              /\ exc' = [kind |-> "RedisError", msg |-> "Redis connection error",
                         stage |-> "failed"]
              /\ UNCHANGED <<saved, commits, calls, trace, sw>>
           \/ /\ saved' = m
              /\ UNCHANGED exc
              /\ commits' = Append(commits, m)
              /\ IF SendsErrorWebhook
                 THEN IF SendPreambleRaises(ErrorPayload(m))
                      THEN /\ calls' = Append(calls,
                                              NewCall(ErrorPayload(m), "raised"))
                           /\ trace' = <<>>
                           /\ pc' = "raised"
                           /\ UNCHANGED sw
                      ELSE BeginSend(ErrorPayload(m), "raised")
                 ELSE pc' = "raised" /\ UNCHANGED <<calls, trace, sw>>
  /\ UNCHANGED <<env, loc, store, now>>

Next ==
  \/ CP_Initializing
  \/ CP_Preprocessing
  \/ CP_OcrExtraction
  \/ CP_FieldExtraction
  \/ CP_PreparingResults
  \/ CP_StoringResults
  \/ CP_SendingWebhook
  \/ CP_Completed
  \/ EX_Initializing
  \/ EX_LoadingImage
  \/ EX_OcrExtraction
  \/ EX_FieldExtraction
  \/ EX_Parsing
  \/ EX_Completed
  \/ W_Initializing
  \/ W_EnqueuePreprocessing
  \/ W_WaitingPreprocessing
  \/ W_OcrExtraction
  \/ W_Parsing
  \/ W_Completed
  \/ P_Initializing
  \/ P_Downloading
  \/ P_Preprocessing
  \/ P_Validation
  \/ P_Saving
  \/ P_EnqueueOcr
  \/ P_Completed
  \/ ReturnResult
  \/ SendAttempt
  \/ Handler

Spec == Init /\ [][Next]_vars


(***************************************************************************)
(* Properties                                                              *)
(***************************************************************************)
Ended == pc \in {"returned", "raised"}

Attempts == {i \in DOMAIN trace : trace[i].k # "sleep"}
PostsOf  == {i \in DOMAIN trace : trace[i].k = "post"}
LastCall == calls[Len(calls)]
CallDone == Len(calls) > 0 /\ LastCall.ret # "pending"

CallsOf(event) == {i \in DOMAIN calls : calls[i].event = event}
\* calls of which at least one POST reached the callback
Delivered(event) == {i \in CallsOf(event) : calls[i].posts > 0}
PayloadJobId(i) == Pair(calls[i].payload, "job_id").s

\* C1: a job.completed webhook is emitted for a job_id iff a result record
\* with that job_id is in the result store: no job.completed POST is made
\* for a job without a record, and once the run has ended (Redis not having
\* failed) every stored record has a job.completed call.
C1_CompletedIffStored ==
  /\ \A i \in Delivered("job.completed") : PayloadJobId(i) \in store
  /\ (Ended /\ exc.kind # "RedisError") =>
        \A j \in store :
          \E i \in CallsOf("job.completed") : PayloadJobId(i) = j

\* C2: the X-Webhook-Signature header of every signed POST equals
\* "sha256=" + hex(HMAC_SHA256(secret, B)) for the body bytes B transmitted
\* in that POST.
C2_SignatureOverTransmittedBytes ==
  \A i \in PostsOf :
    trace[i].has_sig => trace[i].sig = SignatureOf(WEBHOOK_SECRET, trace[i].body)

\* C3: every webhook POST, for job.completed and job.failed and from every
\* worker entry point, carries an X-Webhook-Signature header of the form
\* sha256=<hex>.
C3_EveryPostSigned ==
  \A i \in PostsOf : trace[i].has_sig /\ trace[i].sig.prefix = "sha256="

\* C4: a delivery makes at most 4 attempts, stops at the first success,
\* waits 1 s, 2 s and 4 s before the 2nd, 3rd and 4th attempt, does not wait
\* before the 1st nor after the last; answers 503, 503, 200 give exactly 3
\* attempts.
C4_AttemptsAndBackoff ==
  /\ Cardinality(Attempts) <= 4
  /\ \A i \in DOMAIN trace : (i % 2 = 1) <=> (i \in Attempts)
  /\ \A i \in Attempts : trace[i].resp = "200" => i = Len(trace)
  /\ 2 \in DOMAIN trace => trace[2].secs = 1
  /\ 4 \in DOMAIN trace => trace[4].secs = 2
  /\ 6 \in DOMAIN trace => trace[6].secs = 4
  /\ \A i \in DOMAIN trace :
       (i > 1 /\ i \in Attempts) => trace[i].at = trace[i - 2].at + trace[i - 1].secs
  /\ CallDone /\ trace # <<>> => Len(trace) \in Attempts
  /\ (CallDone /\ Len(trace) >= 5 /\ trace[1].resp = "503"
        /\ trace[3].resp = "503" /\ trace[5].resp = "200")
       => Cardinality(Attempts) = 3

C4_Witness ==
  /\ CallDone /\ LastCall.fn = "send_webhook" /\ LastCall.ret = "true"
  /\ Len(trace) = 5
  /\ trace[1].resp = "503" /\ trace[3].resp = "503" /\ trace[5].resp = "200"

C4_WitnessExhausted ==
  /\ CallDone /\ LastCall.fn = "send_webhook" /\ LastCall.ret = "false"
  /\ Len(trace) = 7

\* C5: an HTTP 4xx answer to a webhook POST is not retried: the POST that
\* received it is the last of its call and the call reports failure.
C5_NoRetryAfter4xx ==
  \A i \in PostsOf :
    (trace[i].resp = "400" /\ LastCall.fn = "send_webhook") =>
      /\ i = Len(trace)
      /\ LastCall.ret = "false"

\* C6: within one delivery call the request body bytes and the
\* X-Webhook-Signature value are the same in every attempt.
C6_SameBytesEveryAttempt ==
  \A i, j \in PostsOf :
    /\ trace[i].body = trace[j].body
    /\ trace[i].has_sig = trace[j].has_sig
    /\ trace[i].sig = trace[j].sig

C6_Witness ==
  /\ Cardinality(PostsOf) >= 2
  /\ \A i \in PostsOf : trace[i].has_sig
  /\ now > 0

\* C7: a failed job.completed delivery (all attempts failed, or the send
\* raised) is never escalated: the run ends with stage completed and
\* progress 100 committed, the stored record remains and no job.failed
\* webhook is emitted.  (Runs in which Redis itself failed are left out.)
C7_DeliveryFailureNotEscalated ==
  (/\ Ended
   /\ exc.kind # "RedisError"
   /\ \E i \in CallsOf("job.completed") : calls[i].ret \in {"false", "raised"})
  => /\ saved.stage = "completed"
     /\ saved.progress = 100
     /\ CallsOf("job.failed") = {}

\* C8: the stage field of the job.failed payload a handler sends is the
\* stage the job was in when the exception was raised, not a terminal marker
\* (shown on the exceptions of the pipeline itself, Redis failures left out).
C8_FailedPayloadCarriesStage ==
  \A i \in CallsOf("job.failed") :
    (calls[i].fn = "send_webhook" /\ exc.kind # "RedisError") =>
      /\ Pair(calls[i].payload, "stage").s = exc.stage
      /\ Pair(calls[i].payload, "stage").s # "failed"

\* C9: every worker run that ends by an exception has committed the failed
\* state and has attempted a job.failed delivery before the exception leaves
\* the worker.  (Runs whose handler itself died on Redis are left out.)
C9_FailureCommitsAndNotifies ==
  (pc = "raised" /\ exc.kind # "RedisError")
  => /\ saved.stage = "failed"
     /\ CallsOf("job.failed") # {}

NonDocumentMessage == "Image does not contain a document (confidence: 0.100)"

\* Python's  "Non-document" in error
ContainsNonDocument(error) == error \in {"Non-document image detected"}

\* C10: when document classification rejects the image the job fails and
\* every job.failed webhook of the run has stage "document_classification",
\* an error containing "Non-document" and a classification_details field.
C10_NonDocumentWebhook ==
  exc.msg = NonDocumentMessage =>
    /\ \A i \in CallsOf("job.failed") :
         /\ Pair(calls[i].payload, "stage").s = "document_classification"
         /\ ContainsNonDocument(Pair(calls[i].payload, "error").s)
         /\ HasKey(calls[i].payload, "classification_details")
    /\ pc = "raised" => saved.stage = "failed" /\ CallsOf("job.failed") # {}

(***************************************************************************)
(* Committed progress and stage                                            *)
(***************************************************************************)
\* the declared stage sequence of a job
DeclaredStages ==
  << "initializing", "downloading", "preprocessing", "ocr_extraction",
     "field_extraction", "preparing_results", "storing_results",
     "sending_webhook", "completed" >>

StageIndex(s) == CHOOSE i \in 1..Len(DeclaredStages) : DeclaredStages[i] = s

\* C11: the committed progress values of a job are non-decreasing over the
\* whole run, the failure path included, and each lies in 0..100.
C11_ProgressMonotone ==
  /\ \A i \in DOMAIN commits : commits[i].progress \in 0..100
  /\ \A i, j \in DOMAIN commits :
       i <= j => commits[i].progress <= commits[j].progress

\* a run that failed after committing progress, and committed the failure
C11_Witness ==
  /\ pc = "raised"
  /\ Len(commits) >= 4
  /\ commits[Len(commits)].stage = "failed"
  /\ commits[Len(commits)].progress >= 40

\* C12: the committed stages follow the declared sequence, starting at
\* initializing and skipping none; the only other transition is to failed.
C12_StageSequence ==
  /\ Len(commits) > 0 => commits[1].stage \in {"initializing", "failed"}
  /\ \A i \in 1..(Len(commits) - 1) :
       \/ commits[i + 1].stage = "failed"
       \/ /\ \E k \in 1..Len(DeclaredStages) : DeclaredStages[k] = commits[i].stage
          /\ StageIndex(commits[i].stage) < Len(DeclaredStages)
          /\ commits[i + 1].stage = DeclaredStages[StageIndex(commits[i].stage) + 1]

Terminal == {"completed", "failed"}

MaxJobs == 2

\* the message a JobRequest is about (image_url, user_id, message_id,
\* webhook_url travel together)
Requests == {"M1", "M2"}

\* progress values committed by process_invoice_complete_pipeline, in order
ProgressSteps == <<0, 10, 40, 60, 80, 90, 95, 100>>

\* no worker run is in progress
RunIdle ==
  /\ worker = "process_invoice_complete_pipeline"
  /\ WEBHOOK_SECRET = ""
  /\ httpx_build = "default_separators"
  /\ preprocessing_metadata = VDict(<<>>)
  /\ pc = "start"
  /\ meta = EmptyMeta
  /\ saved = EmptyMeta
  /\ commits = <<>>
  /\ exc = NoExc
  /\ loc = NoLocals
  /\ store = {}
  /\ calls = <<>>
  /\ trace = <<>>
  /\ sw = IdleSend
  /\ now = 0

ApiInit == RunIdle /\ ApiIdle /\ PipeIdle /\ LibIdle

\* str(uuid.uuid4()): a value no earlier call returned
uuid4 == "uuid-" \o ToString(Len(rq_jobs) + 1)

\* queue.enqueue(f, job_id, ...): a new RQ job, no retry= argument, its
\* number pushed on the queue's list; job.meta starts as an empty dict
NewRqJob(id, req) ==
  [args0 |-> id, req |-> req, status |-> "queued", meta |-> <<>>,
   deliveries |-> 0, exc_info |-> "", retries_left |-> "None"]

create_invoice_job(req) ==
  /\ Len(created) < MaxJobs
  /\ \/ \* get_redis_connection or enqueue raises: HTTP 500
        /\ created' = Append(created, [req |-> req, code |-> 500, job_id |-> ""])
        /\ UNCHANGED <<rq_jobs, rq_queue>>
     \/ /\ rq_jobs' = Append(rq_jobs, NewRqJob(uuid4, req))
        /\ rq_queue' = Append(rq_queue, Len(rq_jobs) + 1)
        /\ created' = Append(created, [req |-> req, code |-> 200, job_id |-> uuid4])
  /\ UNCHANGED <<status_response, lib, worker, WEBHOOK_SECRET, httpx_build,
                 preprocessing_metadata, run, pipe>>

\* queue.get_jobs(): the jobs whose numbers are on the queue's list
get_jobs == [i \in 1..Len(rq_queue) |-> rq_jobs[rq_queue[i]]]

\* getattr(rq_job.meta, 'progress', 0): job.meta is a dict, and a dict has
\* no attribute named progress
getattr_progress(m) == 0

get_job_status(id) ==
  /\ \/ \* get_redis_connection or get_jobs raises: HTTP 500
        status_response' = [job_id |-> id, code |-> 500, status |-> "",
                            progress |-> 0]
     \/ LET jobs  == get_jobs
            found == {i \in 1..Len(jobs) : jobs[i].args0 = id}
        IN IF found = {}
           THEN status_response' = [job_id |-> id, code |-> 404,
                                    status |-> "", progress |-> 0]
           ELSE LET rq_job == jobs[CHOOSE i \in found : \A j \in found : i <= j]
                IN status_response' =
                     [job_id |-> id, code |-> 200, status |-> rq_job.status,
                      progress |-> getattr_progress(rq_job.meta)]
  /\ UNCHANGED <<rq_jobs, rq_queue, created, lib, worker, WEBHOOK_SECRET,
                 httpx_build, preprocessing_metadata, run, pipe>>

\* an RQ worker pops the head of the queue's list and starts the job
WorkerDequeue ==
  /\ Len(rq_queue) > 0
  /\ LET k == Head(rq_queue)
     IN rq_jobs' = [rq_jobs EXCEPT ![k].status = "started",
                                   ![k].deliveries = @ + 1]
  /\ rq_queue' = Tail(rq_queue)
  /\ UNCHANGED <<created, status_response, lib, worker, WEBHOOK_SECRET,
                 httpx_build, preprocessing_metadata, run, pipe>>

\* job.meta['progress'] = ...; job.save_meta() in the running job
WorkerSaveMeta(k) ==
  /\ rq_jobs[k].status = "started"
  /\ Len(rq_jobs[k].meta) < Len(ProgressSteps)
  /\ rq_jobs' = [rq_jobs EXCEPT
                   ![k].meta = Append(@, ProgressSteps[Len(@) + 1])]
  /\ UNCHANGED <<rq_queue, created, status_response, lib, worker, WEBHOOK_SECRET,
                 httpx_build, preprocessing_metadata, run, pipe>>

\* return result_data: RQ marks the job finished
WorkerReturn(k) ==
  /\ rq_jobs[k].status = "started"
  /\ Len(rq_jobs[k].meta) = Len(ProgressSteps)
  /\ rq_jobs' = [rq_jobs EXCEPT ![k].status = "finished"]
  /\ UNCHANGED <<rq_queue, created, status_response, lib, worker, WEBHOOK_SECRET,
                 httpx_build, preprocessing_metadata, run, pipe>>

\* the handler's final "raise": the job was enqueued without retry=, so RQ
\* moves it to the failed registry with the traceback and does not requeue
WorkerRaise(k) ==
  /\ rq_jobs[k].status = "started"
  /\ rq_jobs' = [rq_jobs EXCEPT ![k].status = "failed",
                                ![k].exc_info = "Traceback"]
  /\ UNCHANGED <<rq_queue, created, status_response, lib, worker, WEBHOOK_SECRET,
                 httpx_build, preprocessing_metadata, run, pipe>>

IssuedIds == {created[i].job_id : i \in {j \in DOMAIN created : created[j].code = 200}}

ApiNext ==
  \/ \E req \in Requests : create_invoice_job(req)
  \/ \E id \in IssuedIds \cup {"never-submitted"} : get_job_status(id)
  \/ WorkerDequeue
  \/ \E k \in DOMAIN rq_jobs : WorkerSaveMeta(k)
  \/ \E k \in DOMAIN rq_jobs : WorkerReturn(k)
  \/ \E k \in DOMAIN rq_jobs : WorkerRaise(k)

ApiSpec == ApiInit /\ [][ApiNext]_vars

\* re-deliveries the queue grants a payload before discarding it
QueueMaxRetries == 3

Accepted == {i \in DOMAIN created : created[i].code = 200}
PayloadsOf(req) == {k \in DOMAIN rq_jobs : rq_jobs[k].req = req}
JobOf(id) == CHOOSE k \in DOMAIN rq_jobs : rq_jobs[k].args0 = id
Committed(k) == rq_jobs[k].meta[Len(rq_jobs[k].meta)]

\* C14: a job is enqueued at most once: no job_id labels two payloads, and a
\* second submission of the same job creates no second payload and is
\* answered with the existing job's record.
C14_EnqueuedAtMostOnce ==
  /\ \A k, l \in DOMAIN rq_jobs :
       rq_jobs[k].args0 = rq_jobs[l].args0 => k = l
  /\ \A i, j \in Accepted :
       created[i].req = created[j].req =>
         /\ created[i].job_id = created[j].job_id
         /\ Cardinality(PayloadsOf(created[i].req)) = 1

\* C15: the status endpoint answers 404 only for a job_id no submission
\* returned; for a returned job_id it answers a status record whether the
\* job is queued, running, finished or failed.
C15_StatusKnowsSubmittedJobs ==
  [][\A id \in IssuedIds :
       (get_job_status(id) /\ status_response'.code # 500) =>
          status_response'.code = 200]_vars

\* C16: the progress a status query returns is the progress the job's
\* worker committed last.
C16_StatusProgressIsCommitted ==
  [][\A id \in IssuedIds :
       (/\ get_job_status(id)
        /\ status_response'.code # 500
        /\ Len(rq_jobs[JobOf(id)].meta) > 0) =>
          /\ status_response'.code = 200
          /\ status_response'.progress = Committed(JobOf(id))]_vars

\* C17: a job whose run exits with an exception is delivered again; it
\* becomes failed only after QueueMaxRetries re-deliveries, with kind
\* Exhausted.
C17_RedeliveredUntilExhausted ==
  \A k \in DOMAIN rq_jobs :
    rq_jobs[k].status = "failed" =>
      /\ rq_jobs[k].deliveries = QueueMaxRetries + 1
      /\ rq_jobs[k].exc_info = "Exhausted"

(***************************************************************************)
(* core/image_processor.py: preprocess_image and its callers               *)
(***************************************************************************)
\* the OpenCV attempts a stage makes; each may raise on a given image
Cv2Attempts ==
  { "quality_score", "resize", "crop", "nlmeans", "bilateral", "clahe",
    "equalize_hist", "perspective", "deskew", "filter2d",
    "adaptive_threshold", "otsu_threshold" }

\* operations=None and the list both workers configure
DefaultOperations ==
  << "resize", "denoise", "enhance_contrast", "deskew",
     "perspective_correct", "sharpen", "threshold" >>
ConfiguredOperations ==
  << "resize", "crop_invoice", "denoise", "enhance_contrast",
     "perspective_correct", "deskew", "sharpen", "threshold" >>

Callers == {"process_invoice_complete_pipeline", "preprocess_invoice_image"}

InOperations(op) == \E i \in DOMAIN operations : operations[i] = op

PipeInit ==
  /\ RunIdle
  /\ ApiIdle
  /\ LibIdle
  /\ caller \in Callers
  /\ operations \in {DefaultOperations, ConfiguredOperations}
  /\ cv2_fails \in SUBSET Cv2Attempts
  /\ ppc = "called"
  /\ metadata = NoMetadata
  /\ failed_operations = <<>>

\* the stage methods: each wraps its body in try/except and returns the
\* image it was given when the attempt raises
\* (raised: an exception leaves the method; done: the image was transformed)

\* a quality score computed with no except clause around it
get_image_quality_score_unguarded ==
  [raised |-> "quality_score" \in cv2_fails,
   done   |-> "quality_score" \notin cv2_fails]

\* except: return the all-zero scores
get_image_quality_score ==
  [raised |-> FALSE, done |-> "quality_score" \notin cv2_fails]

resize_image == [raised |-> FALSE, done |-> "resize" \notin cv2_fails]

\* except: return image, {'cropping_applied': False, ...}
crop_invoice_document == [raised |-> FALSE, done |-> "crop" \notin cv2_fails]

\* except: try cv2.bilateralFilter; except: return image
denoise_image ==
  [raised |-> FALSE,
   done   |-> "nlmeans" \notin cv2_fails \/ "bilateral" \notin cv2_fails]

enhance_contrast == [raised |-> FALSE, done |-> "clahe" \notin cv2_fails]

\* except: return image, metadata with perspective_corrected False
correct_perspective_with_metadata ==
  [raised |-> FALSE, done |-> "perspective" \notin cv2_fails]

\* except: return image, 0.0
deskew_image_with_angle == [raised |-> FALSE, done |-> "deskew" \notin cv2_fails]

sharpen_image == [raised |-> FALSE, done |-> "filter2d" \notin cv2_fails]

apply_threshold ==
  [raised |-> FALSE, done |-> "adaptive_threshold" \notin cv2_fails]

Applied(op) ==
  metadata' = [metadata EXCEPT !.operations_applied = Append(@, op)]

Failed(op, reason) ==
  failed_operations' = Append(failed_operations, <<op, reason>>)

\* the outer "except Exception": return image, {'error', 'operations_applied'}
OuterExcept ==
  /\ metadata' = [operations_applied |-> metadata.operations_applied,
                  keys |-> {"error", "operations_applied"},
                  processing_quality |-> ""]
  /\ ppc' = "returned"
  /\ UNCHANGED failed_operations

PipeUnchanged ==
  UNCHANGED <<caller, operations, cv2_fails, lib, worker, WEBHOOK_SECRET,
              httpx_build, preprocessing_metadata, run, api>>

\* image.copy(), the metadata dict with quality_before, the first debug image
PP_Preamble ==
  /\ ppc = "called"
  /\ IF get_image_quality_score.raised
     THEN ppc' = "raised" /\ UNCHANGED metadata
     ELSE /\ metadata' = [operations_applied |-> <<>>,
                          keys |-> {"original_shape", "operations_applied",
                                    "quality_before", "skew_angle",
                                    "perspective_corrected"},
                          processing_quality |-> ""]
          /\ ppc' = "resize"
  /\ UNCHANGED failed_operations
  /\ PipeUnchanged

PP_Resize ==
  /\ ppc = "resize"
  /\ IF ~InOperations("resize")
     THEN UNCHANGED <<metadata, failed_operations>>
     ELSE IF ~resize_image.raised
          THEN Applied("resize") /\ UNCHANGED failed_operations
          ELSE Failed("resize", "e") /\ UNCHANGED metadata
  /\ ppc' = "crop_invoice"
  /\ PipeUnchanged

PP_CropInvoice ==
  /\ ppc = "crop_invoice"
  /\ IF ~InOperations("crop_invoice")
     THEN ppc' = "denoise" /\ UNCHANGED <<metadata, failed_operations>>
     ELSE IF crop_invoice_document.raised
          THEN OuterExcept
          ELSE /\ metadata' =
                    [metadata EXCEPT
                       !.keys = @ \cup {"cropping_applied"},
                       !.operations_applied =
                          IF crop_invoice_document.done
                          THEN Append(@, "crop_invoice") ELSE @]
               /\ ppc' = "denoise"
               /\ UNCHANGED failed_operations
  /\ PipeUnchanged

PP_Denoise ==
  /\ ppc = "denoise"
  /\ IF ~InOperations("denoise")
     THEN UNCHANGED <<metadata, failed_operations>>
     ELSE IF ~denoise_image.raised
          THEN Applied("denoise") /\ UNCHANGED failed_operations
          ELSE Failed("denoise", "e") /\ UNCHANGED metadata
  /\ ppc' = "enhance_contrast"
  /\ PipeUnchanged

PP_EnhanceContrast ==
  /\ ppc = "enhance_contrast"
  /\ IF ~InOperations("enhance_contrast")
     THEN UNCHANGED <<metadata, failed_operations>>
     ELSE IF ~enhance_contrast.raised
          THEN Applied("enhance_contrast") /\ UNCHANGED failed_operations
          ELSE IF "equalize_hist" \notin cv2_fails
               THEN Applied("enhance_contrast_fallback")
                    /\ UNCHANGED failed_operations
               ELSE Failed("enhance_contrast", "e | fallback: fallback_e")
                    /\ UNCHANGED metadata
  /\ ppc' = "perspective_correct"
  /\ PipeUnchanged

PP_PerspectiveCorrect ==
  /\ ppc = "perspective_correct"
  /\ IF ~InOperations("perspective_correct")
     THEN ppc' = "deskew" /\ UNCHANGED <<metadata, failed_operations>>
     ELSE IF correct_perspective_with_metadata.raised
          THEN OuterExcept
          ELSE /\ metadata' =
                    [metadata EXCEPT
                       !.keys = @ \cup {"corners_detected"},
                       !.operations_applied =
                          IF correct_perspective_with_metadata.done
                          THEN Append(@, "perspective_correct") ELSE @]
               /\ ppc' = "deskew"
               /\ UNCHANGED failed_operations
  /\ PipeUnchanged

PP_Deskew ==
  /\ ppc = "deskew"
  /\ IF ~InOperations("deskew")
     THEN ppc' = "sharpen" /\ UNCHANGED <<metadata, failed_operations>>
     ELSE IF deskew_image_with_angle.raised
          THEN OuterExcept
          ELSE /\ IF deskew_image_with_angle.done
                  THEN Applied("deskew") ELSE UNCHANGED metadata
               /\ ppc' = "sharpen"
               /\ UNCHANGED failed_operations
  /\ PipeUnchanged

PP_Sharpen ==
  /\ ppc = "sharpen"
  /\ IF ~InOperations("sharpen")
     THEN UNCHANGED <<metadata, failed_operations>>
     ELSE IF ~sharpen_image.raised
          THEN Applied("sharpen") /\ UNCHANGED failed_operations
          ELSE IF "filter2d" \notin cv2_fails
               THEN Applied("sharpen_fallback") /\ UNCHANGED failed_operations
               ELSE Failed("sharpen", "e | fallback: fallback_e")
                    /\ UNCHANGED metadata
  /\ ppc' = "threshold"
  /\ PipeUnchanged

PP_Threshold ==
  /\ ppc = "threshold"
  /\ IF ~InOperations("threshold")
     THEN UNCHANGED <<metadata, failed_operations>>
     ELSE IF ~apply_threshold.raised
          THEN Applied("threshold") /\ UNCHANGED failed_operations
          ELSE IF "otsu_threshold" \notin cv2_fails
               THEN Applied("threshold_otsu_fallback")
                    /\ UNCHANGED failed_operations
               ELSE Failed("threshold", "e | fallback: fallback_e")
                    /\ UNCHANGED metadata
  /\ ppc' = "finish"
  /\ PipeUnchanged

\* Python's  op in applied  on the names operations_applied can hold
NameContains(applied, op) ==
  applied \in {op, op \o "_fallback", op \o "_otsu_fallback"}

critical_operations == <<"resize", "enhance_contrast", "threshold">>

successful_critical(applied_ops) ==
  {i \in DOMAIN critical_operations :
     \E j \in DOMAIN applied_ops :
        NameContains(applied_ops[j], critical_operations[i])}

ProcessingQuality(applied_ops) ==
  IF Cardinality(successful_critical(applied_ops)) < 1 THEN "poor"
  ELSE IF Cardinality(successful_critical(applied_ops)) < 2 THEN "acceptable"
  ELSE "good"

\* quality_after, processed_shape, failed_operations, processing_quality
PP_Finish ==
  /\ ppc = "finish"
  /\ IF get_image_quality_score.raised
     THEN OuterExcept
     ELSE /\ metadata' =
               [metadata EXCEPT
                  !.keys = @ \cup {"quality_after", "processed_shape",
                                   "failed_operations", "processing_quality"},
                  !.processing_quality =
                     ProcessingQuality(metadata.operations_applied)]
          /\ ppc' = "returned"
          /\ UNCHANGED failed_operations
  /\ PipeUnchanged

\* consolidated_invoice_worker.py calls preprocess_image inside try/except
\* and falls back to the original image
PP_ConsolidatedContinues ==
  /\ caller = "process_invoice_complete_pipeline"
  /\ ppc \in {"returned", "raised"}
  /\ IF ppc = "raised"
     THEN metadata' = [operations_applied |-> <<>>,
                       keys |-> {"operations_applied", "preprocessing_failed",
                                 "error"},
                       processing_quality |-> ""]
     ELSE metadata' = [metadata EXCEPT !.keys = @ \cup {"preprocessing_time"}]
  /\ ppc' = "recognition"
  /\ UNCHANGED failed_operations
  /\ PipeUnchanged

\* preprocessing_worker.py calls preprocess_image with no try of its own
PP_PreprocessingContinues ==
  /\ caller = "preprocess_invoice_image"
  /\ ppc \in {"returned", "raised"}
  /\ IF ppc = "raised"
     THEN ppc' = "job_failed" /\ UNCHANGED metadata
     ELSE /\ metadata' =
               [metadata EXCEPT !.keys = @ \cup {"document_classification"}]
          /\ ppc' = "recognition"
  /\ UNCHANGED failed_operations
  /\ PipeUnchanged

PipeNext ==
  \/ PP_Preamble
  \/ PP_Resize
  \/ PP_CropInvoice
  \/ PP_Denoise
  \/ PP_EnhanceContrast
  \/ PP_PerspectiveCorrect
  \/ PP_Deskew
  \/ PP_Sharpen
  \/ PP_Threshold
  \/ PP_Finish
  \/ PP_ConsolidatedContinues
  \/ PP_PreprocessingContinues

PipeSpec == PipeInit /\ [][PipeNext]_vars

\* the attempts of a stage, primary and fallback, all raised
StageFailed(op) ==
  CASE op = "resize"           -> "resize" \in cv2_fails
    [] op = "denoise"          -> {"nlmeans", "bilateral"} \subseteq cv2_fails
    [] op = "enhance_contrast" -> {"clahe", "equalize_hist"} \subseteq cv2_fails
    [] op = "sharpen"          -> "filter2d" \in cv2_fails
    [] op = "threshold"        ->
          {"adaptive_threshold", "otsu_threshold"} \subseteq cv2_fails
    [] OTHER                   -> FALSE

AppliedNames == {metadata.operations_applied[i] :
                   i \in DOMAIN metadata.operations_applied}

\* C18: no failure of an image-pipeline stage makes the job fail: whatever
\* attempts raise, the caller of preprocess_image goes on to recognition.
C18_StageFailureNeverFatal == ppc # "job_failed"

\* every attempt of every stage raised and the worker went on
C18_Witness ==
  /\ ppc = "recognition"
  /\ cv2_fails = Cv2Attempts
  /\ caller = "preprocess_invoice_image"

\* C19: a stage whose primary attempt and fallback both failed is absent
\* from operations_applied and has a (stage, reason) entry in the failure
\* list of the returned metadata.
C19_FailedStageSkippedAndRecorded ==
  ppc = "returned" =>
    \A op \in {"resize", "denoise", "enhance_contrast", "sharpen", "threshold"} :
      (InOperations(op) /\ StageFailed(op)) =>
         /\ op \notin AppliedNames
         /\ "failed_operations" \in metadata.keys
         /\ \E i \in DOMAIN failed_operations : failed_operations[i][1] = op

\* C20: the returned metadata always carries processing_quality: good when
\* at least 2 of resize, enhance_contrast, threshold succeeded, acceptable
\* when exactly 1 did, poor when none did.
C20_ProcessingQualityGrade ==
  ppc = "returned" =>
    LET n == Cardinality({op \in {"resize", "enhance_contrast", "threshold"} :
                            InOperations(op) /\ ~StageFailed(op)})
    IN /\ "processing_quality" \in metadata.keys
       /\ metadata.processing_quality =
            (IF n >= 2 THEN "good" ELSE IF n = 1 THEN "acceptable" ELSE "poor")

(***************************************************************************)
(* Recognizer, classifier and webhook exclusivity in a worker run          *)
(***************************************************************************)
\* C26: when recognizer initialisation fails the job fails: a job.failed
\* webhook is emitted and no job.completed webhook is, in every worker that
\* initialises the recognizer.
\* (runs in which Redis or the payload serialisation failed as well are left
\* aside: the recognizer failure alone decides the outcome)
C26_RecognizerInitFailureFailsJob ==
  (loc.ocr_init = "failed" /\ Ended /\ exc.kind \notin {"RedisError", "TypeError"}) =>
     /\ CallsOf("job.failed") # {}
     /\ CallsOf("job.completed") = {}

\* C28: within one worker run job.completed and job.failed exclude each
\* other: once a job.completed delivery was attempted, no job.failed
\* delivery is attempted, whatever fails afterwards.
C28_CompletedExcludesFailed ==
  ~(CallsOf("job.completed") # {} /\ CallsOf("job.failed") # {})

\* the classifier failed internally: an analysis raised, its body raised, or
\* the worker's call raised
ClassifierErrored == loc.classifier \in {"analyses_raised", "body_raised", "call_raised"}

\* C29: an internal error of the document classifier is never reported as a
\* rejection: the image is taken for a document and the job goes on to
\* preprocessing instead of failing.
C29_ClassifierErrorNotRejection ==
  ClassifierErrored =>
     /\ exc.msg # NonDocumentMessage
     /\ \A i \in CallsOf("job.failed") :
          Pair(calls[i].payload, "error").s
             \notin {NonDocumentMessage, "Non-document image detected"}

\* C21: on the happy path (document accepted, recognizer initialised, the
\* regions hold a vendor line and a total) the job.completed webhook carries
\* the vendor and the amount the field extractor found, not placeholders.
C21_CompletedCarriesExtractedFields ==
  (IsConsolidated /\ loc.classifier = "document" /\ loc.ocr_init = "ok") =>
     \A i \in CallsOf("job.completed") :
        LET result == Pair(calls[i].payload, "result")
        IN /\ Pair(result, "vendor").s = RecognisedVendor
           /\ Pair(result, "amount").s = RecognisedAmount

(***************************************************************************)
(* The recognizer: dual-pass merge and line items (core/ocr_engine.py)     *)
(*                                                                         *)
(* A text is the sequence of its Unicode code points.  A confidence is in  *)
(* tenths.  A float parsed from text is num / 10^scale.                    *)
(***************************************************************************)
MaxRegions == 2

\* every variable outside the recognizer, result store and image store
program == <<worker, WEBHOOK_SECRET, httpx_build, preprocessing_metadata,
             run, api, pipe>>

\* "Invoce", "Invoice" and the Thai vendor name of the sample invoice
Invoce == <<73, 110, 118, 111, 99, 101>>
Invoice == <<73, 110, 118, 111, 105, 99, 101>>
ThaiVendor == <<3619, 3657, 3634, 3609, 3629, 3634, 3627, 3634, 3619, 3604, 3637, 3651, 3592>>

\* re's character classes on the code points used here: whitespace, the
\* Thai block from KO KAI to the digit nine, [0-9,] and the decimal digits
InClass(c, class) ==
  CASE class = "\\s" -> c \in {9, 10, 11, 12, 13, 32}
    [] class = "thai" -> c \in 3585..3673
    [] class = "[0-9,]" -> c \in 48..57 \/ c = 44
    [] class = "\\d" -> c \in 48..57 \/ c \in 3664..3673

\* len(re.findall(class, text))
CountIf(text, class) ==
  Cardinality({i \in DOMAIN text : InClass(text[i], class)})

\* language_detector.get_script_confidence: thai_chars and total_chars
get_script_confidence(text) ==
  [thai_chars |-> CountIf(text, "thai"),
   total_chars |-> Len(text) - CountIf(text, "\\s")]

\* script_conf["thai"] >= 0.2, and 0.0 for a text without characters
is_thai_heavy_text(text) ==
  LET sc == get_script_confidence(text)
  IN sc.total_chars > 0 /\ sc.thai_chars * 10 >= 2 * sc.total_chars

\* [[x, y], ...]: the four corners PaddleOCR reports
Box(x_min, y_min, x_max, y_max) ==
  << <<x_min, y_min>>, <<x_max, y_min>>, <<x_max, y_max>>, <<x_min, y_max>> >>
BoxA == Box(0, 0, 10, 10)
BoxB == Box(0, 0, 10, 8)
BoxC == Box(20, 0, 30, 10)

MinOf(S) == CHOOSE m \in S : \A n \in S : m <= n
MaxOf(S) == CHOOSE m \in S : \A n \in S : m >= n

bbox_to_rect(bbox) ==
  LET x_coords == {bbox[i][1] : i \in DOMAIN bbox}
      y_coords == {bbox[i][2] : i \in DOMAIN bbox}
  IN [x_min |-> MinOf(x_coords), y_min |-> MinOf(y_coords),
      x_max |-> MaxOf(x_coords), y_max |-> MaxOf(y_coords)]

\* inter_area / union_area as the pair (inter, union); 0.0 is (0, 1)
calculate_bbox_iou(bbox1, bbox2) ==
  LET r1 == bbox_to_rect(bbox1)
      r2 == bbox_to_rect(bbox2)
      x_inter_min == MaxOf({r1.x_min, r2.x_min})
      y_inter_min == MaxOf({r1.y_min, r2.y_min})
      x_inter_max == MinOf({r1.x_max, r2.x_max})
      y_inter_max == MinOf({r1.y_max, r2.y_max})
      inter_area == (x_inter_max - x_inter_min) * (y_inter_max - y_inter_min)
      area1 == (r1.x_max - r1.x_min) * (r1.y_max - r1.y_min)
      area2 == (r2.x_max - r2.x_min) * (r2.y_max - r2.y_min)
      union_area == area1 + area2 - inter_area
  IN IF x_inter_max < x_inter_min \/ y_inter_max < y_inter_min
     THEN [inter |-> 0, union |-> 1]
     ELSE IF union_area = 0 THEN [inter |-> 0, union |-> 1]
     ELSE [inter |-> inter_area, union |-> union_area]

\* iou >= iou_threshold with the default iou_threshold = 0.5
AtLeastThreshold(iou) == 2 * iou.inter >= iou.union

\* a region as _process_ocr_results builds it; the key dual_pass_improved
\* is not set before the merge
Region(text, confidence, bbox, ocr_pass) ==
  [text |-> text, confidence |-> confidence, bounding_box |-> bbox,
   ocr_pass |-> ocr_pass, dual_pass_improved |-> "unset"]

PrimaryPass ==
  {Region(t, c, BoxA, "primary") : t \in {Invoce, ThaiVendor}, c \in {6, 9}}
    \cup {Region(Invoce, 6, BoxC, "primary")}
SecondaryPass ==
  {Region(t, c, b, "secondary") :
     t \in {Invoice, ThaiVendor}, c \in {6, 9}, b \in {BoxB, BoxC}}

ListsUpTo(S, n) == UNION {[1..k -> S] : k \in 0..n}

\* the choice for an overlapping pair always keeps the primary region
choose_best_keep_primary(primary, secondary, idx) ==
  [best_match |-> primary, best_match_idx |-> 0]

\* the choice for an overlapping pair: by language and confidence
\* (best_match_idx 0 is Python's None)
choose_best(primary, secondary, idx) ==
  IF is_thai_heavy_text(primary.text)
  THEN IF primary.confidence * 10 >= secondary.confidence * 8
       THEN [best_match |-> primary, best_match_idx |-> 0]
       ELSE [best_match |-> secondary, best_match_idx |-> idx]
  ELSE IF secondary.confidence * 10 >= primary.confidence * 8
       THEN [best_match |-> secondary, best_match_idx |-> idx]
       ELSE [best_match |-> primary, best_match_idx |-> 0]

\* the loop over primary_regions from position i on: the first secondary
\* region not yet used that overlaps enough decides, then the loop breaks
RECURSIVE MergePrimary(_, _, _, _, _)
MergePrimary(primary, secondary, i, merged, used_secondary) ==
  IF i > Len(primary)
  THEN [merged |-> merged, used_secondary |-> used_secondary]
  ELSE
    LET p == primary[i]
        overlapping ==
          {idx \in DOMAIN secondary :
             /\ idx \notin used_secondary
             /\ AtLeastThreshold(calculate_bbox_iou(p.bounding_box,
                                     secondary[idx].bounding_box))}
        choice == IF overlapping = {}
                  THEN [best_match |-> p, best_match_idx |-> 0]
                  ELSE choose_best(p, secondary[MinOf(overlapping)],
                                   MinOf(overlapping))
        flagged == [choice.best_match EXCEPT !.dual_pass_improved =
                      IF choice.best_match = p THEN "False" ELSE "True"]
    IN MergePrimary(primary, secondary, i + 1, Append(merged, flagged),
                    IF choice.best_match_idx = 0 THEN used_secondary
                    ELSE used_secondary \cup {choice.best_match_idx})

\* the secondary regions whose index is not in used, in order, flagged False
RECURSIVE UnmatchedSecondary(_, _, _)
UnmatchedSecondary(secondary, idx, used_secondary) ==
  IF idx > Len(secondary) THEN <<>>
  ELSE (IF idx \in used_secondary THEN <<>>
        ELSE << [secondary[idx] EXCEPT !.dual_pass_improved = "False"] >>)
       \o UnmatchedSecondary(secondary, idx + 1, used_secondary)

merge_dual_pass_results(primary, secondary) ==
  LET loop == MergePrimary(primary, secondary, 1, <<>>, {})
  IN loop.merged \o UnmatchedSecondary(secondary, 1, loop.used_secondary)

\* the two passes of one image, or a list of regions taken as both passes
MergeInit ==
  /\ RunIdle /\ ApiIdle /\ PipeIdle /\ MongoIdle /\ ImagesIdle
  /\ epc = "merge_called"
  /\ primary_regions \in ListsUpTo(PrimaryPass, MaxRegions)
  /\ secondary_regions \in
       ListsUpTo(SecondaryPass, MaxRegions) \cup {primary_regions}
  /\ merged_regions = <<>>
  /\ text_regions = <<>>
  /\ line_items = <<>>

MergeDualPass ==
  /\ epc = "merge_called"
  /\ merged_regions' = merge_dual_pass_results(primary_regions, secondary_regions)
  /\ epc' = "merged"
  /\ UNCHANGED <<primary_regions, secondary_regions, text_regions, line_items,
                 mongo, images, program>>

MergeNext == MergeDualPass

MergeSpec == MergeInit /\ [][MergeNext]_vars

\* the sample line texts: "Tea 45.00", "TV 2,000,000", "Tip 0",
\* "120 baht" (the word in Thai script) and "Tax , 7"
TeaLine == <<84, 101, 97, 32, 52, 53, 46, 48, 48>>
TvLine == <<84, 86, 32, 50, 44, 48, 48, 48, 44, 48, 48, 48>>
TipLine == <<84, 105, 112, 32, 48>>
BahtLine == <<49, 50, 48, 32, 3610, 3634, 3607>>
TaxLine == <<84, 97, 120, 32, 44, 32, 55>>
Baht == <<3610, 3634, 3607>>

\* first position from i on whose character is not in the class
RECURSIVE SpanEnd(_, _, _)
SpanEnd(text, i, class) ==
  IF i <= Len(text) /\ InClass(text[i], class)
  THEN SpanEnd(text, i + 1, class) ELSE i

\* one match of ([0-9,]+\.?\d*)\s*(?:baht)? starting at position i:
\* group 1 and the position after the match, or no match
MatchAmount(text, i) ==
  IF i > Len(text) \/ ~InClass(text[i], "[0-9,]")
  THEN [matched |-> FALSE, group |-> <<>>, end |-> i]
  ELSE LET a == SpanEnd(text, i, "[0-9,]")
           b == IF a <= Len(text) /\ text[a] = 46 THEN a + 1 ELSE a
           c == SpanEnd(text, b, "\\d")
           d == SpanEnd(text, c, "\\s")
           e == IF d + 2 <= Len(text) /\ SubSeq(text, d, d + 2) = Baht
                THEN d + 3 ELSE d
       IN [matched |-> TRUE, group |-> SubSeq(text, i, c - 1), end |-> e]

\* re.findall(amount_pattern, text)
RECURSIVE FindAmounts(_, _)
FindAmounts(text, i) ==
  IF i > Len(text) THEN <<>>
  ELSE LET m == MatchAmount(text, i)
       IN IF m.matched THEN <<m.group>> \o FindAmounts(text, m.end)
          ELSE FindAmounts(text, i + 1)

\* re.sub(amount_pattern, '', text)
RECURSIVE RemoveAmounts(_, _)
RemoveAmounts(text, i) ==
  IF i > Len(text) THEN <<>>
  ELSE LET m == MatchAmount(text, i)
       IN IF m.matched THEN RemoveAmounts(text, m.end)
          ELSE <<text[i]>> \o RemoveAmounts(text, i + 1)

\* str.strip()
RECURSIVE Strip(_)
Strip(text) ==
  IF text = <<>> THEN <<>>
  ELSE IF InClass(Head(text), "\\s") THEN Strip(Tail(text))
  ELSE IF InClass(text[Len(text)], "\\s") THEN Strip(SubSeq(text, 1, Len(text) - 1))
  ELSE text

DigitValue(c) == IF c \in 48..57 THEN c - 48 ELSE c - 3664

\* the digits of a string as a number
RECURSIVE DigitsValue(_)
DigitsValue(digits) ==
  IF digits = <<>> THEN 0
  ELSE 10 * DigitsValue(SubSeq(digits, 1, Len(digits) - 1))
       + DigitValue(digits[Len(digits)])

RECURSIVE Pow10(_)
Pow10(n) == IF n = 0 THEN 1 ELSE 10 * Pow10(n - 1)

\* float(amount_str.replace(",", "")): ValueError for a string without a
\* digit, otherwise the number num / 10^scale
ParseFloat(amount_str) ==
  LET plain == SelectSeq(amount_str, LAMBDA c : c # 44)
      point == {i \in DOMAIN plain : plain[i] = 46}
      digits == SelectSeq(plain, LAMBDA c : InClass(c, "\\d"))
  IN IF digits = <<>>
     THEN [error |-> "ValueError", num |-> 0, scale |-> 0]
     ELSE [error |-> "", num |-> DigitsValue(digits),
           scale |-> IF point = {} THEN 0
                     ELSE Len(plain) - MinOf(point)]

\* the items one region contributes
RECURSIVE ItemsOf(_, _, _)
ItemsOf(amount_matches, description, confidence) ==
  IF amount_matches = <<>> THEN <<>>
  ELSE LET amount == ParseFloat(Head(amount_matches))
       IN (IF amount.error = "" /\ amount.num > 0 /\ description # <<>>
           THEN << [description |-> [value |-> description,
                                     confidence |-> confidence],
                    amount |-> [value |-> [num |-> amount.num,
                                           scale |-> amount.scale],
                                confidence |-> confidence]] >>
           ELSE <<>>)
          \o ItemsOf(Tail(amount_matches), description, confidence)

RECURSIVE LineItemsFrom(_, _)
LineItemsFrom(regions, i) ==
  IF i > Len(regions) THEN <<>>
  ELSE LET text == regions[i].text
           confidence == regions[i].confidence
           amount_matches == FindAmounts(text, 1)
       IN (IF amount_matches # <<>> /\ confidence > 6
           THEN ItemsOf(amount_matches, Strip(RemoveAmounts(text, 1)),
                        confidence)
           ELSE <<>>)
          \o LineItemsFrom(regions, i + 1)

\* line_items[:10]
extract_line_items(regions) ==
  LET items == LineItemsFrom(regions, 1)
  IN SubSeq(items, 1, IF Len(items) < 10 THEN Len(items) ELSE 10)

LineRegions ==
  {[text |-> t, confidence |-> c] :
     t \in {TeaLine, TvLine, TipLine, BahtLine, TaxLine}, c \in {6, 9}}

LineInit ==
  /\ RunIdle /\ ApiIdle /\ PipeIdle /\ MongoIdle /\ ImagesIdle
  /\ epc = "lines_called"
  /\ text_regions \in ListsUpTo(LineRegions, MaxRegions)
  /\ line_items = <<>>
  /\ primary_regions = <<>>
  /\ secondary_regions = <<>>
  /\ merged_regions = <<>>

ExtractLineItems ==
  /\ epc = "lines_called"
  /\ line_items' = extract_line_items(text_regions)
  /\ epc' = "lines_extracted"
  /\ UNCHANGED <<primary_regions, secondary_regions, merged_regions,
                 text_regions, mongo, images, program>>

LineNext == ExtractLineItems

LineSpec == LineInit /\ [][LineNext]_vars

\* a region without the key the merge adds
Unflagged(region) == [region EXCEPT !.dual_pass_improved = "unset"]

Overlap(i, j) ==
  AtLeastThreshold(calculate_bbox_iou(primary_regions[i].bounding_box,
                                      secondary_regions[j].bounding_box))

\* C23: the merge is idempotent: merging a list of regions with itself
\* yields exactly those regions, none duplicated and none dropped, Thai
\* or not.
C23_MergeWithItselfIsIdentity ==
  (epc = "merged" /\ secondary_regions = primary_regions) =>
     /\ Len(merged_regions) = Len(primary_regions)
     /\ \A i \in DOMAIN merged_regions :
          Unflagged(merged_regions[i]) = primary_regions[i]

\* primary region i and secondary region j overlap each other and nothing
\* else
Paired(i, j) ==
  /\ Overlap(i, j)
  /\ \A k \in DOMAIN secondary_regions : k # j => ~Overlap(i, k)
  /\ \A h \in DOMAIN primary_regions : h # i => ~Overlap(h, j)

UnmatchedIndexes ==
  {j \in DOMAIN secondary_regions :
     \A i \in DOMAIN primary_regions : ~Overlap(i, j)}

\* C27: the secondary regions appended after the primary loop are exactly
\* those with IoU < 0.5 against every primary region, so the output has
\* |primary| + |unmatched secondary| regions.
C27_OnlyUnmatchedSecondaryAppended ==
  epc = "merged" =>
    /\ Len(merged_regions) = Len(primary_regions) + Cardinality(UnmatchedIndexes)
    /\ \A n \in DOMAIN merged_regions :
         n > Len(primary_regions) =>
           \E j \in UnmatchedIndexes :
              Unflagged(merged_regions[n]) = secondary_regions[j]

\* C25: every line-item amount a the field extractor emits satisfies
\* 0 < a <= 1,000,000.
C25_LineItemAmountInRange ==
  epc = "lines_extracted" =>
    \A n \in DOMAIN line_items :
       LET a == line_items[n].amount.value
       IN a.num > 0 /\ a.num <= 1000000 * Pow10(a.scale)

(***************************************************************************)
(* The result store (database/mongodb.py)                                  *)
(***************************************************************************)
MaxStores == 3

JobIds == {"job-1", "job-2"}

\* every variable outside the result store
NotMongo == <<engine, images, program>>

MongoInit == RunIdle /\ ApiIdle /\ PipeIdle /\ LibIdle

\* create_indexes: the unique index on ocr_results.job_id is built unless
\* the first create_index raises, which the except clause only logs (the
\* server refuses to build it over documents that already share a job_id)
create_indexes(raises) ==
  IF ~raises /\ \A i, j \in DOMAIN ocr_results :
                  ocr_results[i].job_id = ocr_results[j].job_id => i = j
  THEN TRUE
  ELSE job_id_index

\* connect: the database reference is set before the ping; a failing ping
\* raises ConnectionError with the reference in place and no index built
connect ==
  /\ database = "None"
  /\ database' = "connected"
  /\ \/ \* ping raises
        UNCHANGED job_id_index
     \/ \E raises \in BOOLEAN : job_id_index' = create_indexes(raises)
  /\ UNCHANGED <<ocr_results, store_calls, NotMongo>>

disconnect ==
  /\ database = "connected"
  /\ database' = "None"
  /\ UNCHANGED <<job_id_index, ocr_results, store_calls, NotMongo>>

\* collection.insert_one(document) on the server: refused when the unique
\* index exists and a document with this job_id is present
insert_one(jid) ==
  IF job_id_index /\ \E i \in DOMAIN ocr_results : ocr_results[i].job_id = jid
  THEN "DuplicateKeyError"
  ELSE "inserted"

store_ocr_result(jid) ==
  /\ Len(store_calls) < MaxStores
  /\ IF database = "None"
     THEN /\ store_calls' = Append(store_calls,
                [job_id |-> jid, outcome |-> "RuntimeError"])
          /\ UNCHANGED ocr_results
     ELSE IF insert_one(jid) = "inserted"
     THEN /\ ocr_results' = Append(ocr_results,
                [job_id |-> jid, model_used |-> "thai"])
          /\ store_calls' = Append(store_calls,
                [job_id |-> jid, outcome |-> "stored"])
     ELSE /\ store_calls' = Append(store_calls,
                [job_id |-> jid, outcome |-> insert_one(jid)])
          /\ UNCHANGED ocr_results
  /\ UNCHANGED <<database, job_id_index, NotMongo>>

MongoNext ==
  \/ connect
  \/ disconnect
  \/ \E jid \in JobIds : store_ocr_result(jid)

MongoSpec == MongoInit /\ [][MongoNext]_vars

RecordsOf(jid) == {i \in DOMAIN ocr_results : ocr_results[i].job_id = jid}

\* C22: of two successive store_ocr_result calls with the same job_id the
\* second fails with a duplicate-key error, and the store holds exactly one
\* record for that job_id.
C22_SecondStoreIsDuplicate ==
  \A n \in DOMAIN store_calls :
     ( /\ n > 1
       /\ store_calls[n - 1].job_id = store_calls[n].job_id
       /\ store_calls[n - 1].outcome = "stored"
       /\ store_calls[n].outcome # "RuntimeError" )
     => /\ store_calls[n].outcome = "DuplicateKeyError"
        /\ Cardinality(RecordsOf(store_calls[n].job_id)) = 1

(***************************************************************************)
(* The image store (storage/image_storage.py)                              *)
(***************************************************************************)
MaxImages == 2

ImageTypes == {"original", "enhanced"}

\* every variable outside the image store
NotImages == <<engine, mongo, program>>

\* after __init__: "spaces" only when the Spaces client is available
ImageInit ==
  /\ RunIdle /\ ApiIdle /\ PipeIdle /\ EngineIdle /\ MongoIdle
  /\ storage_provider \in {"local", "spaces"}
  /\ spaces_bucket = {}
  /\ local_files = {}
  /\ store_image_calls = <<>>

\* f"{job_id}_{image_type}_{uuid.uuid4().hex}.{file_extension}": a name no
\* earlier call produced
Filename(jid, image_type, n) ==
  jid \o "_" \o image_type \o "_" \o ToString(n) \o ".jpg"

\* _store_to_spaces: the public URL, or None when the upload fails or raises
store_to_spaces(jid, image_type, n, upload_ok) ==
  IF upload_ok
  THEN [written |-> {"enhanced-images/" \o Filename(jid, image_type, n)},
        url |-> "spaces:enhanced-images/" \o Filename(jid, image_type, n)]
  ELSE [written |-> {}, url |-> "None"]

\* _store_locally: the local URL, or the exception of open() / write()
store_locally(jid, image_type, n, write_ok) ==
  IF write_ok
  THEN [written |-> {Filename(jid, image_type, n)}, raised |-> FALSE,
        url |-> "base_url/" \o Filename(jid, image_type, n)]
  ELSE [written |-> {}, raised |-> TRUE, url |-> ""]

\* the URL of the outer except clause
PlaceholderUrl(jid, image_type) ==
  "base_url/placeholder_" \o jid \o "_" \o image_type \o ".jpg"

store_image(jid, image_type, upload_ok, write_ok) ==
  /\ Len(store_image_calls) < MaxImages
  /\ LET n == Len(store_image_calls) + 1
         spaces == IF storage_provider = "spaces"
                   THEN store_to_spaces(jid, image_type, n, upload_ok)
                   ELSE [written |-> {}, url |-> "None"]
         local == store_locally(jid, image_type, n + MaxImages, write_ok)
         returned == IF spaces.url # "None" THEN spaces.url
                     ELSE IF local.raised
                     THEN PlaceholderUrl(jid, image_type)
                     ELSE local.url
     IN /\ spaces_bucket' = spaces_bucket \cup spaces.written
        /\ local_files' = local_files \cup local.written
        /\ store_image_calls' = Append(store_image_calls,
              [job_id |-> jid, image_type |-> image_type,
               outcome |-> "returned", url |-> returned])
  /\ UNCHANGED <<storage_provider, NotImages>>

ImageNext ==
  \E jid \in JobIds, image_type \in ImageTypes, upload_ok, write_ok \in BOOLEAN :
     store_image(jid, image_type, upload_ok, write_ok)

ImageSpec == ImageInit /\ [][ImageNext]_vars

\* the URLs under which the written bytes can be fetched
WrittenUrls ==
  {"spaces:" \o key : key \in spaces_bucket}
    \cup {"base_url/" \o name : name \in local_files}

\* C30: store_image returns a URL only for bytes that were written to the
\* cloud bucket or to the local directory; when both writes fail the caller
\* observes a failure instead of a URL.
C30_ReturnedUrlNamesWrittenBytes ==
  \A n \in DOMAIN store_image_calls :
     store_image_calls[n].outcome = "returned"
        => store_image_calls[n].url \in WrittenUrls

====
